---- MODULE Spec2Model ----
(***************************************************************************)
(* Model of the usability testing tool (src/project1.py): the CSV record   *)
(* store (save_to_csv / load_from_csv), the task timer kept in the         *)
(* Streamlit session state, the four stage handlers and the report tab.    *)
(*                                                                         *)
(* A CSV file is held as its lines, a line as its text cells; a write is   *)
(* done on the text of the file (the cells joined by commas, the lines     *)
(* ended by a line end), so that a write over a part of a file leaves the  *)
(* rest of its characters.  No cell of the model holds a comma, a quote or *)
(* a line end, and no record is a single empty cell, so the csv writer     *)
(* quotes nothing.  Values are tagged (bool, int, float, str, nan) so that *)
(* writing a value (to_csv) and reading it back (read_csv with its         *)
(* per-column type inference) are different functions.  Clock readings and *)
(* floats are whole numbers of seconds.                                    *)
(*                                                                         *)
(* A run of the script ends early when a rerun is pending at one of its    *)
(* st calls or st.session_state accesses; the run that follows starts at   *)
(* once.  A run that is inside save_to_csv when the rerun is requested     *)
(* goes on with the call while the next run executes, and ends at the      *)
(* st.success that follows the call.  save_to_csv is three steps: the test *)
(* of os.path.isfile, the open of the file by to_csv, and its write.       *)
(***************************************************************************)
EXTENDS Integers, Sequences, FiniteSets, TLC

VARIABLES files, appended, loaded, session_state, run, msg, log, sessions,
          stops, pending, acted

vars == <<files, appended, loaded, session_state, run, msg, log, sessions,
          stops, pending, acted>>

-----------------------------------------------------------------------------
(* Bounds *)

\* most calls of save_to_csv begun by the stage handlers, over all files
MaxRows == 2

\* most calls of save_to_csv begun by the stage handlers, over all files, in
\* the specifications SpecFew and SpecStarts
MaxSaves == 1

\* most starts that assigned and stops that measured since the session
\* state was last empty, in the log of SpecTimer
MaxLog == 4

\* the starts the log of SpecStarts holds: the most recent ones
MaxStarts == 2

\* the most runs of the script ended by a pending rerun
MaxStops == 1

\* the most calls of save_to_csv a session of the bare record store makes
MaxCalls == 1

-----------------------------------------------------------------------------
(* Program constants *)

CONSENT_CSV == "data/consent_data.csv"

DEMOGRAPHIC_CSV == "data/demographic_data.csv"

TASK_CSV == "data/task_data.csv"

EXIT_CSV == "data/exit_data.csv"

CsvFiles == {CONSENT_CSV, DEMOGRAPHIC_CSV, TASK_CSV, EXIT_CSV}

\* st.number_input("Age", min_value=10, max_value=100, step=1)
AgeMin == 10

AgeMax == 100

-----------------------------------------------------------------------------
(* Values of record fields *)

BoolV(b) == [t |-> "bool", n |-> IF b THEN 1 ELSE 0, s |-> ""]

IntV(i) == [t |-> "int", n |-> i, s |-> ""]

FloatV(x) == [t |-> "float", n |-> x, s |-> ""]

StrV(str) == [t |-> "str", n |-> 0, s |-> str]

\* numpy.nan, the missing-value marker of a loaded frame
NaN == [t |-> "nan", n |-> 0, s |-> ""]

\* the numbers whose text the model can write and read back
NumRange == ((0 - 2) .. AgeMin) \cup {AgeMax}

\* str(int)
IntText == [i \in NumRange |-> ToString(i)]

\* repr(float) of a whole-number float: "2.0", "-1.0"
FloatText == [i \in NumRange |-> ToString(i) \o ".0"]

\* the text to_csv writes for one value (na_rep = "")
FormatValue(v) ==
    CASE v.t = "bool" -> (IF v.n = 1 THEN "True" ELSE "False")
      [] v.t = "int" -> IntText[v.n]
      [] v.t = "float" -> FloatText[v.n]
      [] v.t = "str" -> v.s
      [] OTHER -> ""

-----------------------------------------------------------------------------
(* pandas.read_csv: missing values and per-column type inference *)

\* the default na_values of read_csv
NAValues ==
    {"", "#N/A", "#N/A N/A", "#NA", "-1.#IND", "-1.#QNAN", "-NaN", "-nan",
     "1.#IND", "1.#QNAN", "<NA>", "N/A", "NA", "NULL", "NaN", "None", "n/a",
     "nan", "null"}

IsNA(c) == c \in NAValues

\* the texts read_csv takes for an integer, and for a float
IntTexts == {IntText[i] : i \in NumRange}

FloatTexts == {FloatText[i] : i \in NumRange}

IsIntText(c) == c \in IntTexts

IntOf(c) == CHOOSE i \in NumRange : IntText[i] = c

IsFloatText(c) == c \in IntTexts \/ c \in FloatTexts

FloatOf(c) ==
    IF IsIntText(c) THEN IntOf(c) ELSE CHOOSE i \in NumRange : FloatText[i] = c

TrueValues == {"True", "TRUE", "true"}

FalseValues == {"False", "FALSE", "false"}

IsBoolText(c) == c \in TrueValues \cup FalseValues

\* the values of one column, from the texts of its cells: int64 when every
\* cell is an integer, else float64 (missing cells NaN), else bool (object
\* when cells are missing), else object (the texts themselves)
ParseColumn(cells) ==
    LET idx == DOMAIN cells
        present == {i \in idx : ~IsNA(cells[i])}
    IN  IF \A i \in idx : IsIntText(cells[i])
        THEN [i \in idx |-> IntV(IntOf(cells[i]))]
        ELSE IF \A i \in present : IsFloatText(cells[i])
        THEN [i \in idx |-> IF i \in present THEN FloatV(FloatOf(cells[i]))
                                              ELSE NaN]
        ELSE IF \A i \in present : IsBoolText(cells[i])
        THEN [i \in idx |-> IF i \in present
                            THEN BoolV(cells[i] \in TrueValues) ELSE NaN]
        ELSE [i \in idx |-> IF i \in present THEN StrV(cells[i]) ELSE NaN]

\* pd.DataFrame(): no columns, no rows
EmptyDataFrame ==
    [err |-> FALSE, exc |-> "", columns |-> <<>>, index |-> <<>>, rows |-> <<>>]

\* pandas.errors.ParserError ("Expected k fields in line n, saw m")
ParserError ==
    [err |-> TRUE, exc |-> "ParserError", columns |-> <<>>, index |-> <<>>,
     rows |-> <<>>]

\* DataFrame.empty
IsEmpty(df) == Len(df.columns) = 0 \/ Len(df.rows) = 0

\* pandas.errors.EmptyDataError ("No columns to parse from file")
EmptyDataError ==
    [err |-> TRUE, exc |-> "EmptyDataError", columns |-> <<>>, index |-> <<>>,
     rows |-> <<>>]

\* the column names read_csv makes of a header line: an empty cell is named
\* after its place, a name met before gets the number of earlier occurrences
ColumnNames(header) ==
    [j \in DOMAIN header |->
        LET seen == Cardinality({i \in 1..(j - 1) : header[i] = header[j]})
        IN  IF header[j] = "" THEN "Unnamed: " \o ToString(j - 1)
            ELSE IF seen > 0 THEN header[j] \o "." \o ToString(seen)
            ELSE header[j]]

\* pandas.read_csv on the lines of an existing file: blank lines (lines of no
\* cell) are skipped; a file with no other line is an EmptyDataError; the
\* first line is the header; a first data line longer than the header makes
\* its leading cells an implicit index; a later line longer than that is a
\* ParserError; shorter lines are padded with missing cells
read_csv(lines) ==
    IF \A i \in DOMAIN lines : lines[i] = <<>> THEN EmptyDataError ELSE
    LET kept == SelectSeq(lines, LAMBDA l : l # <<>>)
        header == kept[1]
        k == Len(header)
        data == Tail(kept)
        n == Len(data)
        width == IF n > 0 /\ Len(data[1]) > k THEN Len(data[1]) ELSE k
        lead == width - k
        cell(i, j) == IF j <= Len(data[i]) THEN data[i][j] ELSE ""
        col == [j \in 1..width |-> ParseColumn([i \in 1..n |-> cell(i, j)])]
    IN  IF \E i \in 1..n : Len(data[i]) > width
        THEN ParserError
        ELSE [err |-> FALSE,
              exc |-> "",
              columns |-> ColumnNames(header),
              index |-> [i \in 1..n |-> [j \in 1..lead |-> col[j][i]]],
              rows |-> [i \in 1..n |-> [j \in 1..k |-> col[lead + j][i]]]]

-----------------------------------------------------------------------------
(* The text of a file *)

RECURSIVE JoinCells(_)
\* the cells of a line with commas between them
JoinCells(line) ==
    IF line = <<>> THEN ""
    ELSE IF Len(line) = 1 THEN line[1]
    ELSE line[1] \o "," \o JoinCells(Tail(line))

\* the characters of a line of the file, with its line end
LineText(line) == JoinCells(line) \o "\n"

RECURSIVE Text(_)
\* the characters of a file
Text(lines) ==
    IF lines = <<>> THEN "" ELSE LineText(lines[1]) \o Text(Tail(lines))

RECURSIVE Find(_, _, _)
\* the place of the first sep in text at or after place i, 0 when none is
Find(text, sep, i) ==
    IF i > Len(text) THEN 0
    ELSE IF SubSeq(text, i, i) = sep THEN i
    ELSE Find(text, sep, i + 1)

RECURSIVE Split(_, _)
\* the pieces of text between the occurrences of sep
Split(text, sep) ==
    LET p == Find(text, sep, 1)
    IN  IF p = 0 THEN <<text>>
        ELSE <<SubSeq(text, 1, p - 1)>>
             \o Split(SubSeq(text, p + 1, Len(text)), sep)

\* the cells of a line from its characters; a blank line has no cell
CellsOf(text) == IF text = "" THEN <<>> ELSE Split(text, ",")

\* the lines of a file from its characters
LinesOf(text) ==
    LET parts == Split(text, "\n")
        whole == IF parts[Len(parts)] = ""
                 THEN SubSeq(parts, 1, Len(parts) - 1)
                 ELSE parts
    IN  [i \in DOMAIN whole |-> CellsOf(whole[i])]

\* a write of the characters new at position 0 of a file holding old: what
\* old holds beyond the end of new stays
Overlay(old, new) == new \o SubSeq(old, Len(new) + 1, Len(old))

-----------------------------------------------------------------------------
(* The record store *)

\* a file that does not exist
NoFile == [exists |-> FALSE, lines |-> <<>>]

\* a record (data_dict) is a sequence of <<field name, value>> pairs
Keys(data_dict) == [j \in DOMAIN data_dict |-> data_dict[j][1]]

Values(data_dict) == [j \in DOMAIN data_dict |-> data_dict[j][2]]

\* the line to_csv writes for the single row of df_new
RowText(data_dict) == [j \in DOMAIN data_dict |-> FormatValue(data_dict[j][2])]

\* what to_csv writes: the header line and the data line with header=True,
\* the data line alone with header=False
CsvText(data_dict, header) ==
    IF header
    THEN LineText(Keys(data_dict)) \o LineText(RowText(data_dict))
    ELSE LineText(RowText(data_dict))

\* to_csv opens the file: mode='w' (os.path.isfile gave False) creates the
\* file or empties it, mode='a' (it gave True) leaves what the file holds
Open(isfile, file) ==
    [exists |-> TRUE, lines |-> IF isfile THEN file.lines ELSE <<>>]

\* to_csv writes its text and closes the file: a file opened with mode='w'
\* is written from position 0, over what was written to it since the open;
\* one opened with mode='a' is written at its end
Write(isfile, data_dict, file) ==
    [exists |-> TRUE,
     lines |-> LinesOf(IF isfile
                       THEN Text(file.lines) \o CsvText(data_dict, FALSE)
                       ELSE Overlay(Text(file.lines),
                                    CsvText(data_dict, TRUE)))]

\* load_from_csv: the frame returned
load_from_csv(file) ==
    IF file.exists THEN read_csv(file.lines) ELSE EmptyDataFrame

-----------------------------------------------------------------------------
(* The report tab *)

HasColumn(df, name) == \E c \in DOMAIN df.columns : df.columns[c] = name

\* the values of the column called name, one per row
Column(df, name) ==
    LET j == CHOOSE c \in DOMAIN df.columns : df.columns[c] = name
    IN  [i \in DOMAIN df.rows |-> df.rows[i][j]]

RECURSIVE SumN(_)
SumN(vals) ==
    IF vals = <<>> THEN 0 ELSE vals[1].n + SumN(Tail(vals))

\* Series.mean(): the numeric values that are not NaN, summed and divided by
\* their number; the quotient is kept as numerator and denominator
Mean(vals) ==
    LET nums == SelectSeq(vals, LAMBDA v : v.t \in {"int", "float", "bool"})
    IN  [num |-> SumN(nums), den |-> Len(nums)]

\* the exception exit_df[name].mean() raises, "" when it raises none: the
\* frame has no such column, or the column holds texts
MeanError(df, name) ==
    IF ~HasColumn(df, name) THEN "KeyError"
    ELSE IF \E i \in DOMAIN df.rows : Column(df, name)[i].t = "str"
    THEN "TypeError"
    ELSE ""

NoAverages == [shown |-> FALSE,
               avg_satisfaction |-> [num |-> 0, den |-> 0],
               avg_difficulty |-> [num |-> 0, den |-> 0]]

\* the exception raised by lines 188-193, "" when none is
AveragesError(exit_df) ==
    IF IsEmpty(exit_df) THEN ""
    ELSE IF MeanError(exit_df, "satisfaction") # ""
    THEN MeanError(exit_df, "satisfaction")
    ELSE MeanError(exit_df, "difficulty")

\* the "Exit Questionnaire Averages" section
Averages(exit_df) ==
    IF ~IsEmpty(exit_df)
    THEN [shown |-> TRUE,
          avg_satisfaction |-> Mean(Column(exit_df, "satisfaction")),
          avg_difficulty |-> Mean(Column(exit_df, "difficulty"))]
    ELSE NoAverages

\* what the report tab shows for the files fs: a frame per file (shown as a
\* table unless it is empty) and the averages of the exit questionnaire. An
\* exception raised by a load or by a mean ends the script there: exception
\* is its name, and the frames and the averages after that place are not
\* shown
RenderReport(fs) ==
    LET consent_df == load_from_csv(fs[CONSENT_CSV])
        demographic_df == load_from_csv(fs[DEMOGRAPHIC_CSV])
        task_df == load_from_csv(fs[TASK_CSV])
        exit_df == load_from_csv(fs[EXIT_CSV])
    IN  IF consent_df.err
        THEN [consent_df |-> consent_df,
              demographic_df |-> EmptyDataFrame,
              task_df |-> EmptyDataFrame,
              exit_df |-> EmptyDataFrame,
              averages |-> NoAverages,
              exception |-> consent_df.exc]
        ELSE IF demographic_df.err
        THEN [consent_df |-> consent_df,
              demographic_df |-> demographic_df,
              task_df |-> EmptyDataFrame,
              exit_df |-> EmptyDataFrame,
              averages |-> NoAverages,
              exception |-> demographic_df.exc]
        ELSE IF task_df.err
        THEN [consent_df |-> consent_df,
              demographic_df |-> demographic_df,
              task_df |-> task_df,
              exit_df |-> EmptyDataFrame,
              averages |-> NoAverages,
              exception |-> task_df.exc]
        ELSE IF exit_df.err
        THEN [consent_df |-> consent_df,
              demographic_df |-> demographic_df,
              task_df |-> task_df,
              exit_df |-> exit_df,
              averages |-> NoAverages,
              exception |-> exit_df.exc]
        ELSE [consent_df |-> consent_df,
              demographic_df |-> demographic_df,
              task_df |-> task_df,
              exit_df |-> exit_df,
              averages |-> IF AveragesError(exit_df) = ""
                           THEN Averages(exit_df) ELSE NoAverages,
              exception |-> AveragesError(exit_df)]

-----------------------------------------------------------------------------
(* Inputs of the form widgets *)

\* time.strftime("%Y-%m-%d %H:%M:%S")
Timestamps == {"2024-01-01 10:00:00"}

\* time.time() at the clicks of the timer buttons: two readings, taken in
\* either order, give a positive, a zero and a negative difference
ClockReadings == {0, 1}

NameInputs == {"Ann"}

AgeInputs == {AgeMin}

OccupationInputs == {"tester"}

FamiliarityOptions == {"Not familiar", "Somewhat familiar", "Very familiar"}

FamiliarityInputs == {"Not familiar"}

TaskOptions == {"Task 1: Example Task"}

SuccessOptions == {"Yes", "No", "Partial"}

SuccessInputs == {"Yes"}

NotesInputs == {""}

\* st.slider(..., 1, 5)
SliderMin == 1

SliderMax == 5

\* the answers <<satisfaction, difficulty>> given on the two sliders
SliderInputs == {<<3, 2>>, <<5, 4>>}

FeedbackInputs == {"fine"}


-----------------------------------------------------------------------------
(* One run of the script: the button that was clicked and its handler *)

NoMessage == ""

\* a run that no pending rerun ends
NoRerun == 0

\* an st call after the handler of the button clicked, up to the last one of
\* the report tab (line 193)
Later == 193

\* where a run of the script ends. Streamlit tests in every st call and in
\* every access of st.session_state whether a rerun is pending (the next
\* click came while the script was running) and ends the script there:
\* NoRerun - no rerun is pending and the script runs to its last line;
\* otherwise the line of the call or access the run ends at, the line of a
\* button standing for the st calls up to that button, Later for those after
\* the handler
RerunPoints ==
    {NoRerun, 68, 70, 76, 90, 99, 107, 108, 109, 111, 112, 113, 114, 119,
     120, 130, 133, 134, 145, 153, Later}

\* the message a handler shows at line, unless the run ends at or before it
Shown(message, rerun_at, line) ==
    IF rerun_at # NoRerun /\ rerun_at <= line THEN NoMessage ELSE message

StageButtons ==
    {"Submit Consent", "Submit Demographics", "Save Task Results",
     "Submit Exit Questionnaire"}

\* the file a stage button saves to
StageFile ==
    [b \in StageButtons |->
        CASE b = "Submit Consent" -> CONSENT_CSV
          [] b = "Submit Demographics" -> DEMOGRAPHIC_CSV
          [] b = "Save Task Results" -> TASK_CSV
          [] b = "Submit Exit Questionnaire" -> EXIT_CSV]

\* the line of the st.success that follows the save_to_csv call of a stage
SuccessLine ==
    [b \in StageButtons |->
        CASE b = "Submit Consent" -> 76
          [] b = "Submit Demographics" -> 99
          [] b = "Save Task Results" -> 130
          [] b = "Submit Exit Questionnaire" -> 153]

SuccessMessage ==
    [b \in StageButtons |->
        CASE b = "Submit Consent" -> "Consent recorded."
          [] b = "Submit Demographics" -> "Demographic data saved."
          [] b = "Save Task Results" -> "Task performance data saved."
          [] b = "Submit Exit Questionnaire" -> "Exit questionnaire data saved."]

\* no call of save_to_csv
NoCall ==
    [button |-> "", csv_file |-> "", data_dict |-> <<>>, pc |-> "idle",
     isfile |-> FALSE]

\* a call save_to_csv(data_dict, csv_file) made by the handler of button,
\* about to test os.path.isfile; pc is the step the call is at ("isfile",
\* "open", "write", then "done": the call has returned), isfile what the
\* test gave
Call(button, data_dict, csv_file) ==
    [button |-> button, csv_file |-> csv_file, data_dict |-> data_dict,
     pc |-> "isfile", isfile |-> FALSE]

\* the call has not returned
InCall(call) == call.pc \in {"isfile", "open", "write"}

\* the inputs of a run: the button clicked ("" when none), the value of the
\* consent checkbox read by "Submit Consent" and the time.time() read by the
\* timer buttons; stopped tells that the script was ended before its last
\* line, rerun_at where; call is the call of save_to_csv the run is in
ButtonRun(button) ==
    [button |-> button, consent_given |-> FALSE, now |-> 0,
     stopped |-> FALSE, rerun_at |-> NoRerun, call |-> NoCall]

ConsentRun(consent_given) ==
    [button |-> "Submit Consent", consent_given |-> consent_given, now |-> 0,
     stopped |-> FALSE, rerun_at |-> NoRerun, call |-> NoCall]

TimerRun(button, now) ==
    [button |-> button, consent_given |-> FALSE, now |-> now,
     stopped |-> FALSE, rerun_at |-> NoRerun, call |-> NoCall]

\* the code that took the last step: that of the current run ("run") or
\* that of a run told to stop that is still inside save_to_csv ("stopped"),
\* and the button of that run
Acted(thread, button) == [thread |-> thread, button |-> button]

\* the number of records written so far, over all files
Appends == Len(appended[CONSENT_CSV]) + Len(appended[DEMOGRAPHIC_CSV])
           + Len(appended[TASK_CSV]) + Len(appended[EXIT_CSV])

\* the number of calls of save_to_csv begun so far
Calls == Appends + Len(pending) + (IF InCall(run.call) THEN 1 ELSE 0)

\* the rest of a run that ends at rerun_at, message being what its handler
\* has shown: the tabs after the handler, the report tab among them, change
\* neither a file nor the session state; stops counts the runs ended by a
\* pending rerun
EndRun(r, message, rerun_at) ==
    /\ run' = [r EXCEPT !.stopped = (rerun_at # NoRerun),
                        !.rerun_at = rerun_at,
                        !.call = NoCall]
    /\ msg' = message
    /\ rerun_at # NoRerun => stops < MaxStops
    /\ stops' = IF rerun_at = NoRerun THEN stops ELSE stops + 1
    /\ acted' = Acted("run", r.button)
    /\ UNCHANGED <<loaded, pending>>

\* a run that is ended at or before the button clicked, or at the first
\* access of st.session_state in its handler: the click has no effect
Skipped(button, rerun_at) ==
    /\ UNCHANGED <<files, appended, session_state>>
    /\ EndRun(ButtonRun(button), NoMessage, rerun_at)

\* the handler of the run r calls save_to_csv(data_dict, csv_file): the run
\* is inside the call and has shown nothing yet
EnterCall(r, data_dict, csv_file) ==
    /\ Calls < MaxRows
    /\ run' = [r EXCEPT !.call = Call(r.button, data_dict, csv_file)]
    /\ msg' = NoMessage
    /\ acted' = Acted("run", r.button)
    /\ UNCHANGED <<files, appended, session_state, stops, loaded, pending>>

\* a run in which no button was clicked: it has no handler to end at
Rerun(rerun_at) ==
    /\ run.call.pc = "idle"
    /\ rerun_at \in {NoRerun, Later}
    /\ UNCHANGED <<files, appended, session_state>>
    /\ EndRun(ButtonRun(""), NoMessage, rerun_at)

\* "Submit Consent", lines 67-75: up to the call of save_to_csv
SubmitConsent(consent_given, timestamp, rerun_at) ==
    /\ run.call.pc = "idle"
    /\ IF rerun_at = 68
       THEN Skipped("Submit Consent", rerun_at)
       ELSE IF ~consent_given
       THEN /\ rerun_at \in {NoRerun, 70, Later}
            /\ UNCHANGED <<files, appended, session_state>>
            /\ EndRun(ConsentRun(consent_given),
                      Shown("You must agree to the consent terms before proceeding.",
                            rerun_at, 70),
                      rerun_at)
       ELSE /\ rerun_at = NoRerun
            /\ EnterCall(ConsentRun(consent_given),
                         << <<"timestamp", StrV(timestamp)>>,
                            <<"consent_given", BoolV(consent_given)>> >>,
                         CONSENT_CSV)

\* "Submit Demographics" that saves to the consent file
SubmitDemographics_WrongFile(name, age, occupation, familiarity, timestamp, rerun_at) ==
    /\ run.call.pc = "idle"
    /\ IF rerun_at = 90
       THEN Skipped("Submit Demographics", rerun_at)
       ELSE /\ rerun_at = NoRerun
            /\ EnterCall(ButtonRun("Submit Demographics"),
                         << <<"timestamp", StrV(timestamp)>>,
                            <<"name", StrV(name)>>,
                            <<"age", IntV(age)>>,
                            <<"occupation", StrV(occupation)>>,
                            <<"familiarity", StrV(familiarity)>> >>,
                         CONSENT_CSV)

\* "Submit Demographics", lines 90-98: up to the call of save_to_csv
SubmitDemographics(name, age, occupation, familiarity, timestamp, rerun_at) ==
    /\ run.call.pc = "idle"
    /\ IF rerun_at = 90
       THEN Skipped("Submit Demographics", rerun_at)
       ELSE /\ rerun_at = NoRerun
            /\ EnterCall(ButtonRun("Submit Demographics"),
                         << <<"timestamp", StrV(timestamp)>>,
                            <<"name", StrV(name)>>,
                            <<"age", IntV(age)>>,
                            <<"occupation", StrV(occupation)>>,
                            <<"familiarity", StrV(familiarity)>> >>,
                         DEMOGRAPHIC_CSV)

\* session_state.pop(key, None)
Pop(state, key) == [k \in (DOMAIN state) \ {key} |-> state[k]]

\* session_state[key] = value
Put(state, key, value) ==
    [k \in (DOMAIN state) \cup {key} |-> IF k = key THEN value ELSE state[k]]

\* "Start Task Timer" that keeps a start_time already set
StartTaskTimer_KeepFirst(now, rerun_at) ==
    /\ run.call.pc = "idle"
    /\ IF rerun_at = 107
       THEN Skipped("Start Task Timer", rerun_at)
       ELSE /\ rerun_at \in {NoRerun, 108, 109, Later}
            /\ session_state' =
                  IF rerun_at = 108 \/ "start_time" \in DOMAIN session_state
                  THEN session_state
                  ELSE Put(session_state, "start_time", now)
            /\ UNCHANGED <<files, appended>>
            /\ EndRun(TimerRun("Start Task Timer", now),
                      Shown("Task timer started.", rerun_at, 109), rerun_at)

\* "Start Task Timer", lines 107-109: a run ended at the button (107) has
\* not read the clock; one ended at the access of line 108 has read it and
\* has assigned nothing; one ended at st.success (109) has assigned
StartTaskTimer(now, rerun_at) ==
    /\ run.call.pc = "idle"
    /\ IF rerun_at = 107
       THEN Skipped("Start Task Timer", rerun_at)
       ELSE /\ rerun_at \in {NoRerun, 108, 109, Later}
            /\ session_state' = IF rerun_at = 108 THEN session_state
                                ELSE Put(session_state, "start_time", now)
            /\ UNCHANGED <<files, appended>>
            /\ EndRun(TimerRun("Start Task Timer", now),
                      Shown("Task timer started.", rerun_at, 109), rerun_at)

\* f"Task duration recorded: {duration:.2f} seconds."
DurationMessage(duration) ==
    "Task duration recorded: " \o ToString(duration) \o ".00 seconds."

\* "Stop Task Timer" with session_state.get("start_time", 0) in place of the
\* test that start_time is set
StopTaskTimer_Unguarded(now, rerun_at) ==
    /\ run.call.pc = "idle"
    /\ IF rerun_at = 111
       THEN Skipped("Stop Task Timer", rerun_at)
       ELSE LET start_time == IF "start_time" \in DOMAIN session_state
                              THEN session_state["start_time"] ELSE 0
                duration == now - start_time
            IN  /\ rerun_at \in {NoRerun, 112, 113, 114, Later}
                /\ session_state' =
                      IF rerun_at \in {112, 113} THEN session_state
                      ELSE Put(session_state, "task_duration", duration)
                /\ UNCHANGED <<files, appended>>
                /\ EndRun(TimerRun("Stop Task Timer", now),
                          Shown(DurationMessage(duration), rerun_at, 114),
                          rerun_at)

\* "Stop Task Timer", lines 111-114: a run ended at line 111 (the button, or
\* the access of the test) has done nothing; while start_time is not set the
\* body is not entered: the clock is not read and the run has no other place
\* of the handler to end at; else the run reads the clock and ends at the
\* read of start_time (112), at the assignment (113, nothing assigned), at
\* st.success (114, assigned) or later
StopTaskTimer(now, rerun_at) ==
    /\ run.call.pc = "idle"
    /\ IF rerun_at = 111
       THEN Skipped("Stop Task Timer", rerun_at)
       ELSE IF "start_time" \in DOMAIN session_state
       THEN LET duration == now - session_state["start_time"]
            IN  /\ rerun_at \in {NoRerun, 112, 113, 114, Later}
                /\ session_state' =
                      IF rerun_at \in {112, 113} THEN session_state
                      ELSE Put(session_state, "task_duration", duration)
                /\ UNCHANGED <<files, appended>>
                /\ EndRun(TimerRun("Stop Task Timer", now),
                          Shown(DurationMessage(duration), rerun_at, 114),
                          rerun_at)
       ELSE /\ rerun_at \in {NoRerun, Later}
            /\ Skipped("Stop Task Timer", rerun_at)

\* duration_val if duration_val else "": None and 0.0 are both false
DurationField(state) ==
    IF "task_duration" \in DOMAIN state /\ state["task_duration"] # 0
    THEN FloatV(state["task_duration"])
    ELSE StrV("")

\* "Save Task Results", lines 119-128: a run ended at the button (119) or at
\* the access of line 120 has read nothing; else task_duration is read and
\* save_to_csv is called with the record
SaveTaskResults(selected_task, success, notes, timestamp, rerun_at) ==
    /\ run.call.pc = "idle"
    /\ IF rerun_at \in {119, 120}
       THEN Skipped("Save Task Results", rerun_at)
       ELSE /\ rerun_at = NoRerun
            /\ EnterCall(ButtonRun("Save Task Results"),
                         << <<"timestamp", StrV(timestamp)>>,
                            <<"task_name", StrV(selected_task)>>,
                            <<"success", StrV(success)>>,
                            <<"duration_seconds", DurationField(session_state)>>,
                            <<"notes", StrV(notes)>> >>,
                         TASK_CSV)

\* "Save Task Results", lines 130-134, after save_to_csv has returned:
\* st.success, then the two pops, each an access of st.session_state. A run
\* ended at st.success (130) has shown nothing and popped nothing; one ended
\* at the first pop (133) has shown the message and popped nothing; one
\* ended at the second pop (134) has popped start_time only
TaskSaved(rerun_at) ==
    /\ run.call.pc = "done"
    /\ run.button = "Save Task Results"
    /\ rerun_at \in {NoRerun, 130, 133, 134, Later}
    /\ session_state' =
          IF rerun_at \in {130, 133} THEN session_state
          ELSE IF rerun_at = 134 THEN Pop(session_state, "start_time")
          ELSE Pop(Pop(session_state, "start_time"), "task_duration")
    /\ UNCHANGED <<files, appended>>
    /\ EndRun(run, Shown(SuccessMessage[run.button], rerun_at, 130), rerun_at)

\* "Submit Exit Questionnaire", lines 145-152: up to the call of save_to_csv
SubmitExit(satisfaction, difficulty, open_feedback, timestamp, rerun_at) ==
    /\ run.call.pc = "idle"
    /\ IF rerun_at = 145
       THEN Skipped("Submit Exit Questionnaire", rerun_at)
       ELSE /\ rerun_at = NoRerun
            /\ EnterCall(ButtonRun("Submit Exit Questionnaire"),
                         << <<"timestamp", StrV(timestamp)>>,
                            <<"satisfaction", IntV(satisfaction)>>,
                            <<"difficulty", IntV(difficulty)>>,
                            <<"open_feedback", StrV(open_feedback)>> >>,
                         EXIT_CSV)

\* the st.success of lines 76, 99 and 153, after save_to_csv has returned,
\* and the rest of the run
Saved(rerun_at) ==
    /\ run.call.pc = "done"
    /\ run.button \in StageButtons \ {"Save Task Results"}
    /\ rerun_at \in {NoRerun, SuccessLine[run.button], Later}
    /\ UNCHANGED <<files, appended, session_state>>
    /\ EndRun(run,
              Shown(SuccessMessage[run.button], rerun_at,
                    SuccessLine[run.button]),
              rerun_at)

\* a rerun is requested while the run is inside save_to_csv: the next run
\* starts at once, and the run goes on with the call, beside the runs that
\* follow, up to the st.success after it, where it ends
StopRun ==
    /\ InCall(run.call)
    /\ stops < MaxStops
    /\ pending' = Append(pending, run.call)
    /\ run' = [run EXCEPT !.call = NoCall,
                          !.stopped = TRUE,
                          !.rerun_at = SuccessLine[run.button]]
    /\ stops' = stops + 1
    /\ acted' = Acted("run", run.button)
    /\ UNCHANGED <<files, appended, session_state, msg, loaded>>

\* the code inside save_to_csv: the current run (0) and the runs told to
\* stop that have not returned from their call
Threads == 0 .. Len(pending)

CallOf(t) == IF t = 0 THEN run.call ELSE pending[t]

Remove(seq, i) == SubSeq(seq, 1, i - 1) \o SubSeq(seq, i + 1, Len(seq))

\* the call of t goes on as call; a run told to stop ends when its call has
\* returned
Step(t, call) ==
    /\ IF t = 0
       THEN /\ run' = [run EXCEPT !.call = call]
            /\ pending' = pending
       ELSE /\ run' = run
            /\ pending' = IF call.pc = "done" THEN Remove(pending, t)
                          ELSE [pending EXCEPT ![t] = call]
    /\ acted' = Acted(IF t = 0 THEN "run" ELSE "stopped", CallOf(t).button)
    /\ UNCHANGED <<session_state, msg, stops, loaded>>

\* save_to_csv, line 22: os.path.isfile(csv_file)
CallIsFile(t) ==
    /\ CallOf(t).pc = "isfile"
    /\ Step(t, [CallOf(t) EXCEPT !.pc = "open",
                                 !.isfile = files[CallOf(t).csv_file].exists])
    /\ UNCHANGED <<files, appended>>

\* save_to_csv, line 24 or 27: to_csv opens the file
CallOpen(t) ==
    /\ CallOf(t).pc = "open"
    /\ files' = [files EXCEPT ![CallOf(t).csv_file] =
                    Open(CallOf(t).isfile, @)]
    /\ Step(t, [CallOf(t) EXCEPT !.pc = "write"])
    /\ UNCHANGED appended

\* save_to_csv, line 24 or 27: to_csv writes the file and returns
CallWrite(t) ==
    /\ CallOf(t).pc = "write"
    /\ files' = [files EXCEPT ![CallOf(t).csv_file] =
                    Write(CallOf(t).isfile, CallOf(t).data_dict, @)]
    /\ appended' = [appended EXCEPT ![CallOf(t).csv_file] =
                       Append(@, CallOf(t).data_dict)]
    /\ Step(t, [CallOf(t) EXCEPT !.pc = "done"])

-----------------------------------------------------------------------------
(* The application: any sequence of runs *)

\* the sessions that may call save_to_csv at the same time
Sessions == {1, 2}

\* a session that is not inside a call of save_to_csv: the calls it has made
\* so far and how many of them found no file at their os.path.isfile test
IdleSession == [pc |-> "idle", data_dict |-> <<>>, isfile |-> FALSE,
                calls |-> 0, created |-> 0]

\* nothing has been loaded through the bare record store
NotLoaded == [csv_file |-> "", records |-> <<>>, df |-> EmptyDataFrame]

Init ==
    /\ files = [f \in CsvFiles |-> NoFile]
    /\ appended = [f \in CsvFiles |-> <<>>]
    /\ loaded = NotLoaded
    /\ session_state = <<>>
    /\ run = ButtonRun("")
    /\ msg = NoMessage
    /\ log = <<>>
    /\ sessions = [s \in Sessions |-> IdleSession]
    /\ stops = 0
    /\ pending = <<>>
    /\ acted = Acted("run", "")

Consent ==
    /\ \E c \in BOOLEAN, ts \in Timestamps, rerun_at \in RerunPoints :
           SubmitConsent(c, ts, rerun_at)
    /\ UNCHANGED <<log, sessions>>

Demographics ==
    /\ \E name \in NameInputs, age \in AgeInputs, occ \in OccupationInputs,
          fam \in FamiliarityInputs, ts \in Timestamps,
          rerun_at \in RerunPoints :
           SubmitDemographics(name, age, occ, fam, ts, rerun_at)
    /\ UNCHANGED <<log, sessions>>

Start ==
    /\ \E now \in ClockReadings, rerun_at \in RerunPoints :
           StartTaskTimer(now, rerun_at)
    /\ UNCHANGED <<log, sessions>>

Stop ==
    /\ \E now \in ClockReadings, rerun_at \in RerunPoints :
           StopTaskTimer(now, rerun_at)
    /\ UNCHANGED <<log, sessions>>

SaveTask ==
    /\ \E task \in TaskOptions, success \in SuccessInputs,
          notes \in NotesInputs, ts \in Timestamps,
          rerun_at \in RerunPoints :
           SaveTaskResults(task, success, notes, ts, rerun_at)
    /\ UNCHANGED <<log, sessions>>

Exit ==
    /\ \E answer \in SliderInputs, fb \in FeedbackInputs, ts \in Timestamps,
          rerun_at \in RerunPoints :
           SubmitExit(answer[1], answer[2], fb, ts, rerun_at)
    /\ UNCHANGED <<log, sessions>>

View ==
    /\ \E rerun_at \in RerunPoints : Rerun(rerun_at)
    /\ UNCHANGED <<log, sessions>>

Returns ==
    /\ \E rerun_at \in RerunPoints : Saved(rerun_at)
    /\ UNCHANGED <<log, sessions>>

TaskReturns ==
    /\ \E rerun_at \in RerunPoints : TaskSaved(rerun_at)
    /\ UNCHANGED <<log, sessions>>

Stops ==
    /\ StopRun
    /\ UNCHANGED <<log, sessions>>

IsFiles ==
    /\ \E t \in Threads : CallIsFile(t)
    /\ UNCHANGED <<log, sessions>>

Opens ==
    /\ \E t \in Threads : CallOpen(t)
    /\ UNCHANGED <<log, sessions>>

Writes ==
    /\ \E t \in Threads : CallWrite(t)
    /\ UNCHANGED <<log, sessions>>

Next ==
    \/ Consent
    \/ Demographics
    \/ Start
    \/ Stop
    \/ SaveTask
    \/ Exit
    \/ View
    \/ Returns
    \/ TaskReturns
    \/ Stops
    \/ IsFiles
    \/ Opens
    \/ Writes

Spec == Init /\ [][Next]_vars

-----------------------------------------------------------------------------
(* The application with fewer calls of save_to_csv *)

\* fewer than MaxSaves calls of save_to_csv have begun
Few == Calls < MaxSaves

FewConsent == Few /\ Consent

FewDemographics == Few /\ Demographics

FewSaveTask == Few /\ SaveTask

FewExit == Few /\ Exit

NextFew ==
    \/ FewConsent
    \/ FewDemographics
    \/ Start
    \/ Stop
    \/ FewSaveTask
    \/ FewExit
    \/ View
    \/ Returns
    \/ TaskReturns
    \/ Stops
    \/ IsFiles
    \/ Opens
    \/ Writes

SpecFew == Init /\ [][NextFew]_vars

-----------------------------------------------------------------------------
(* The task tab alone, with a log of what its handlers have done since the
   session state was last empty *)

\* what the log keeps of a run: its button and its clock reading. A start
\* is logged when it assigned start_time, a stop when it assigned
\* task_duration, a save when it read task_duration and called save_to_csv
Logged(r) == [button |-> r.button, now |-> r.now]

\* the log after a step that leaves the session state as state: nothing
\* done before the session state was empty bears on what the handlers do
\* next
Keep(l, state) == IF DOMAIN state = {} THEN <<>> ELSE l

\* the starts and stops of the log
TimerRuns(l) == SelectSeq(l, LAMBDA e : e.button # "Save Task Results")

TimedStart ==
    /\ Len(TimerRuns(log)) < MaxLog
    /\ \E now \in ClockReadings, rerun_at \in RerunPoints :
           StartTaskTimer(now, rerun_at)
    /\ log' = IF run'.rerun_at \in {107, 108} THEN log
              ELSE Append(log, Logged(run'))
    /\ UNCHANGED sessions

TimedStop ==
    /\ Len(TimerRuns(log)) < MaxLog
    /\ \E now \in ClockReadings, rerun_at \in RerunPoints :
           StopTaskTimer(now, rerun_at)
    /\ log' = IF "start_time" \in DOMAIN session_state
                 /\ run'.rerun_at \notin {111, 112, 113}
              THEN Append(log, Logged(run'))
              ELSE log
    /\ UNCHANGED sessions

TimedSave ==
    /\ \E task \in TaskOptions, success \in SuccessInputs,
          notes \in NotesInputs, ts \in Timestamps,
          rerun_at \in RerunPoints :
           SaveTaskResults(task, success, notes, ts, rerun_at)
    /\ log' = IF InCall(run'.call) /\ DOMAIN session_state # {}
              THEN Append(log, Logged(run'))
              ELSE log
    /\ UNCHANGED sessions

TimedReturn ==
    /\ \E rerun_at \in RerunPoints : TaskSaved(rerun_at)
    /\ log' = Keep(log, session_state')
    /\ UNCHANGED sessions

NextTimer ==
    \/ TimedStart
    \/ TimedStop
    \/ TimedSave
    \/ TimedReturn
    \/ Stops
    \/ IsFiles
    \/ Opens
    \/ Writes

SpecTimer == Init /\ [][NextTimer]_vars

-----------------------------------------------------------------------------
(* The task tab alone, with a log of the most recent starts *)

\* the last n entries of the log l
Recent(l, n) == IF Len(l) <= n THEN l ELSE SubSeq(l, Len(l) - n + 1, Len(l))

RecentStart ==
    /\ \E now \in ClockReadings, rerun_at \in RerunPoints :
           StartTaskTimer(now, rerun_at)
    /\ log' = IF run'.rerun_at \in {107, 108} THEN log
              ELSE Recent(Append(log, Logged(run')), MaxStarts)
    /\ UNCHANGED sessions

NextStarts ==
    \/ RecentStart
    \/ Stop
    \/ FewSaveTask
    \/ TaskReturns
    \/ Stops
    \/ IsFiles
    \/ Opens
    \/ Writes

SpecStarts == Init /\ [][NextStarts]_vars

-----------------------------------------------------------------------------
(* The record store alone: two sessions call save_to_csv(data_dict,
   StoreFile) with any record and load_from_csv(StoreFile); the steps of
   their calls interleave *)

StoreFile == TASK_CSV

FieldLists == {<<"a">>, <<"a", "b">>, <<"b", "a">>}

StoreValues == {StrV(""), StrV("7"), IntV(7)}

\* the records with the field names fl
RecordsOf(fl) ==
    {[j \in DOMAIN fl |-> <<fl[j], vs[j]>>] : vs \in [DOMAIN fl -> StoreValues]}

\* the records appended: those whose line is not a single empty cell
StoreRecords ==
    {r \in UNION {RecordsOf(fl) : fl \in FieldLists} : RowText(r) # <<"">>}

\* save_to_csv, line 22: os.path.isfile(csv_file), the first step of a call
RaceCheck(s, data_dict) ==
    /\ sessions[s].pc = "idle"
    /\ sessions[s].calls < MaxCalls
    /\ sessions' = [sessions EXCEPT ![s] =
          [pc |-> "open",
           data_dict |-> data_dict,
           isfile |-> files[StoreFile].exists,
           calls |-> @.calls + 1,
           created |-> @.created + (IF files[StoreFile].exists THEN 0 ELSE 1)]]
    /\ UNCHANGED <<files, appended>>

\* an open that tests again whether the file exists and chooses its mode by
\* that
RaceOpen_Recheck(s) ==
    /\ sessions[s].pc = "open"
    /\ files' = [files EXCEPT ![StoreFile] = Open(@.exists, @)]
    /\ sessions' = [sessions EXCEPT ![s] =
          [@ EXCEPT !.pc = "write", !.isfile = files[StoreFile].exists]]
    /\ UNCHANGED appended

\* to_csv opens the file, the second step of a call
RaceOpen(s) ==
    /\ sessions[s].pc = "open"
    /\ files' = [files EXCEPT ![StoreFile] = Open(sessions[s].isfile, @)]
    /\ sessions' = [sessions EXCEPT ![s] = [@ EXCEPT !.pc = "write"]]
    /\ UNCHANGED appended

\* to_csv writes its text and closes the file, the last step of a call
RaceWrite(s) ==
    /\ sessions[s].pc = "write"
    /\ files' = [files EXCEPT ![StoreFile] =
          Write(sessions[s].isfile, sessions[s].data_dict, @)]
    /\ appended' = [appended EXCEPT ![StoreFile] =
          Append(@, sessions[s].data_dict)]
    /\ sessions' = [sessions EXCEPT ![s] =
          [@ EXCEPT !.pc = "idle", !.data_dict = <<>>, !.isfile = FALSE]]

StoreChecks ==
    /\ \E s \in Sessions, data_dict \in StoreRecords : RaceCheck(s, data_dict)
    /\ UNCHANGED <<loaded, session_state, run, msg, log, stops, pending,
                   acted>>

RaceOpens ==
    /\ \E s \in Sessions : RaceOpen(s)
    /\ UNCHANGED <<loaded, session_state, run, msg, log, stops, pending,
                   acted>>

RaceWrites ==
    /\ \E s \in Sessions : RaceWrite(s)
    /\ UNCHANGED <<loaded, session_state, run, msg, log, stops, pending,
                   acted>>

\* a call load_from_csv(StoreFile), kept with the records written before it
StoreLoad ==
    /\ loaded' = [csv_file |-> StoreFile,
                  records |-> appended[StoreFile],
                  df |-> load_from_csv(files[StoreFile])]
    /\ UNCHANGED <<files, appended, session_state, run, msg, log, sessions,
                   stops, pending, acted>>

NextStore ==
    \/ StoreChecks
    \/ RaceOpens
    \/ RaceWrites
    \/ StoreLoad

SpecStore == Init /\ [][NextStore]_vars

-----------------------------------------------------------------------------
(* Two calls of save_to_csv at the same time, with records of the same
   field names *)

RaceRecords == RecordsOf(<<"a", "b">>)

RaceChecks ==
    /\ \E s \in Sessions, data_dict \in RaceRecords : RaceCheck(s, data_dict)
    /\ UNCHANGED <<loaded, session_state, run, msg, log, stops, pending,
                   acted>>

NextRace ==
    \/ RaceChecks
    \/ RaceOpens
    \/ RaceWrites

SpecRace == Init /\ [][NextRace]_vars

-----------------------------------------------------------------------------
(* Properties *)

\* the value a record gives to the field called name
Field(data_dict, name) ==
    data_dict[CHOOSE j \in DOMAIN data_dict : data_dict[j][1] = name][2]

Last(seq) == seq[Len(seq)]

SameFields(records) ==
    \A i \in DOMAIN records : Keys(records[i]) = Keys(records[1])

\* C1: a load after N >= 1 appends of records with the same field names to a
\* file that did not exist returns N rows, in the order of the appends, each
\* row holding the values that were appended.
C1_RoundTrip ==
    (loaded.csv_file # "" /\ Len(loaded.records) >= 1
        /\ SameFields(loaded.records))
    => /\ ~loaded.df.err
       /\ Len(loaded.df.rows) = Len(loaded.records)
       /\ \A i \in DOMAIN loaded.records :
            loaded.df.rows[i] = Values(loaded.records[i])

\* C2: an append whose field names differ from the header of the file is
\* rejected and leaves the file as it was.
C2_MismatchRejected ==
    [][(/\ appended'[StoreFile] # appended[StoreFile]
        /\ files[StoreFile].lines # <<>>
        /\ Keys(Last(appended'[StoreFile])) # files[StoreFile].lines[1])
       => files'[StoreFile] = files[StoreFile]]_vars

\* C3: a stop while start_time is set stores now - start_time as the
\* duration and unsets start_time, so that a second stop right after it
\* leaves the duration alone.
C3_StopLeavesIdle ==
    [][(acted' = Acted("run", "Stop Task Timer")
          /\ run'.rerun_at \notin {111, 112, 113}
          /\ "start_time" \in DOMAIN session_state)
       => /\ "task_duration" \in DOMAIN session_state'
          /\ session_state'["task_duration"]
               = run'.now - session_state["start_time"]
          /\ "start_time" \notin DOMAIN session_state'
          /\ (run.button = "Stop Task Timer"
                /\ "task_duration" \in DOMAIN session_state)
             => session_state'["task_duration"]
                  = session_state["task_duration"]]_vars

\* the log since the last save
RECURSIVE SinceSave(_)
SinceSave(l) ==
    IF l = <<>> \/ Last(l).button = "Save Task Results" THEN <<>>
    ELSE Append(SinceSave(SubSeq(l, 1, Len(l) - 1)), Last(l))

\* a stop has measured a duration
Measured(l) == \E j \in DOMAIN l : l[j].button = "Stop Task Timer"

\* C4: the duration field of a saved task record is the duration held by the
\* timer whenever a measurement was completed since the last save, whatever
\* its value, and the empty placeholder only when none was.
C4_DurationSaved ==
    [][(acted' = Acted("run", "Save Task Results") /\ run'.call.pc = "isfile")
       => Field(run'.call.data_dict, "duration_seconds")
            = IF Measured(SinceSave(log))
              THEN FloatV(session_state["task_duration"])
              ELSE StrV("")]_vars

\* the log ends with start, stop, start, stop
TwoCycles(l) ==
    /\ Len(l) >= 4
    /\ l[Len(l) - 3].button = "Start Task Timer"
    /\ l[Len(l) - 2].button = "Stop Task Timer"
    /\ l[Len(l) - 1].button = "Start Task Timer"
    /\ l[Len(l)].button = "Stop Task Timer"

\* C5: a save after two start/stop cycles writes the duration of the second
\* cycle only; when the run of a save is over, neither start_time nor a
\* duration is left behind; a save with no measurement since the save before
\* it writes no duration.
C5_ConsumeLatest ==
    [][/\ (acted' = Acted("run", "Save Task Results")
             /\ run'.call.pc = "isfile")
          => /\ TwoCycles(log)
                => Field(run'.call.data_dict, "duration_seconds")
                     = FloatV(log[Len(log)].now - log[Len(log) - 1].now)
             /\ (log # <<>> /\ SinceSave(log) = <<>>)
                => Field(run'.call.data_dict, "duration_seconds") = StrV("")
       /\ (acted' = Acted("run", "Save Task Results")
             /\ run.call.pc # "idle" /\ run'.call.pc = "idle")
          => DOMAIN session_state' = {}]_vars

\* C6: a stop while start_time is not set changes nothing of the timer
\* (start_time stays unset, a duration held is kept), shows no duration and
\* writes nothing.
C6_IdleStopNoop ==
    [][(acted' = Acted("run", "Stop Task Timer")
          /\ "start_time" \notin DOMAIN session_state)
       => /\ session_state' = session_state
          /\ msg' = NoMessage
          /\ files' = files
          /\ appended' = appended
          /\ pending' = pending]_vars

\* a save ended at its second pop has left a duration with no start_time;
\* the stop that follows runs to its end
C6_Witness ==
    /\ acted = Acted("run", "Stop Task Timer")
    /\ run.rerun_at = NoRerun
    /\ "start_time" \notin DOMAIN session_state
    /\ "task_duration" \in DOMAIN session_state
    /\ session_state["task_duration"] = 1
    /\ Len(appended[TASK_CSV]) = 1
    /\ msg = NoMessage

\* C7: a submit without the checkbox writes no record and changes neither a
\* file nor the session state; the write of a submit with the checkbox adds
\* exactly one record, with a timestamp and consent_given true, to the
\* records of the consent file and changes no other file.
C7_ConsentGate ==
    [][/\ (acted' = Acted("run", "Submit Consent") /\ ~run'.consent_given)
          => /\ files' = files
             /\ appended' = appended
             /\ session_state' = session_state
       /\ (acted'.button = "Submit Consent" /\ appended' # appended)
          => LET r == Last(appended'[CONSENT_CSV])
                 old == files[CONSENT_CSV].lines
             IN  /\ appended' = [appended EXCEPT ![CONSENT_CSV] = Append(@, r)]
                 /\ Keys(r) = <<"timestamp", "consent_given">>
                 /\ Field(r, "consent_given") = BoolV(TRUE)
                 /\ files'[CONSENT_CSV].lines
                      = (IF old = <<>> THEN <<Keys(r)>> ELSE old)
                        \o <<RowText(r)>>
                 /\ \A f \in CsvFiles \ {CONSENT_CSV} :
                      files'[f] = files[f]]_vars

\* C8: a duration stored by stop is never negative, whatever the two clock
\* readings were.
C8_NonNegative ==
    "task_duration" \in DOMAIN session_state
    => session_state["task_duration"] >= 0

RECURSIVE SumField(_, _)
SumField(records, name) ==
    IF records = <<>> THEN 0
    ELSE Field(records[1], name).n + SumField(Tail(records), name)

\* the last step was the end of a run that reached the end of the report
\* tab: the files are as that run has read them
Rendered == acted.thread = "run" /\ run.call.pc = "idle" /\ ~run.stopped

\* the report that run has rendered
Report == RenderReport(files)

\* C9: when exit records were written, the averages of the report a run
\* renders are the sums of their satisfaction and difficulty fields divided
\* by their number.
C9_MeanExit ==
    LET records == appended[EXIT_CSV]
        avg == Report.averages
    IN  (Len(records) > 0 /\ Rendered)
        => /\ avg.shown
           /\ avg.avg_satisfaction.den > 0
           /\ avg.avg_satisfaction.num * Len(records)
                = SumField(records, "satisfaction") * avg.avg_satisfaction.den
           /\ avg.avg_difficulty.den > 0
           /\ avg.avg_difficulty.num * Len(records)
                = SumField(records, "difficulty") * avg.avg_difficulty.den

\* C10: a load of a file to which nothing was ever written returns the
\* empty frame and no error.
C10_LoadMissing ==
    /\ (loaded.csv_file # "" /\ loaded.records = <<>>)
       => loaded.df = EmptyDataFrame
    /\ \A f \in CsvFiles :
         appended[f] = <<>> => load_from_csv(files[f]) = EmptyDataFrame

IsPrefix(a, b) == Len(a) <= Len(b) /\ \A i \in DOMAIN a : a[i] = b[i]

\* C11: no step removes, reorders or changes a line of a file: each file
\* after a step starts with the lines it had before the step, and a file
\* that existed still exists.
C11_AppendOnly ==
    [][\A f \in CsvFiles :
         /\ files[f].exists => files'[f].exists
         /\ IsPrefix(files[f].lines, files'[f].lines)]_vars

\* C12: a file exists exactly when a record was written to it; its first
\* line is then the field names of the first record written, and it holds
\* that one header line followed by one line per record, whatever the field
\* names of the later records are.
C12_HeaderFixed ==
    \A f \in CsvFiles :
        /\ files[f].exists <=> appended[f] # <<>>
        /\ ~files[f].exists => files[f].lines = <<>>
        /\ files[f].exists
           => /\ files[f].lines # <<>>
              /\ files[f].lines[1] = Keys(appended[f][1])
              /\ Len(files[f].lines) = Len(appended[f]) + 1
              /\ \A i \in DOMAIN appended[f] :
                   files[f].lines[i + 1] = RowText(appended[f][i])

HasStart(l) == \E i \in DOMAIN l : l[i].button = "Start Task Timer"

\* the place of the most recent start in the log l
LastStart(l) ==
    CHOOSE i \in DOMAIN l :
        /\ l[i].button = "Start Task Timer"
        /\ \A j \in DOMAIN l : j > i => l[j].button # "Start Task Timer"

\* C13: a start that reaches its assignment, whether start_time was set or
\* not, leaves start_time equal to the clock reading of that start, and a
\* start whose run is ended before the assignment changes nothing; a stop
\* that reaches its assignment measures from the most recent start, not
\* from an earlier one, and a stop whose run is ended before the assignment
\* changes nothing.
C13_StartOverwrites ==
    [][/\ acted' = Acted("run", "Start Task Timer")
          => IF run'.rerun_at \in {107, 108}
             THEN session_state' = session_state
             ELSE /\ "start_time" \in DOMAIN session_state'
                  /\ session_state'["start_time"] = run'.now
       /\ (acted' = Acted("run", "Stop Task Timer")
             /\ "start_time" \in DOMAIN session_state)
          => IF run'.rerun_at \in {111, 112, 113}
             THEN session_state' = session_state
             ELSE /\ HasStart(log)
                  /\ "task_duration" \in DOMAIN session_state'
                  /\ session_state'["task_duration"]
                       = run'.now - log[LastStart(log)].now]_vars

\* a stop has measured after two starts with different clock readings
C13_Witness ==
    /\ Len(log) = 2
    /\ log[1].button = "Start Task Timer"
    /\ log[2].button = "Start Task Timer"
    /\ log[1].now # log[2].now
    /\ acted = Acted("run", "Stop Task Timer")
    /\ run.rerun_at = NoRerun
    /\ "task_duration" \in DOMAIN session_state
    /\ session_state["task_duration"] = run.now - log[2].now
    /\ session_state["start_time"] = log[2].now

\* C16: a duration written by a save comes from a stop made after the most
\* recent start.
C16_FreshDuration ==
    [][(acted' = Acted("run", "Save Task Results")
          /\ run'.call.pc = "isfile"
          /\ Field(run'.call.data_dict, "duration_seconds").t = "float")
       => /\ HasStart(log)
          /\ \E j \in DOMAIN log :
               j > LastStart(log) /\ log[j].button = "Stop Task Timer"]_vars

\* the frame the report holds for the file f
ReportFrame(rep, f) ==
    CASE f = CONSENT_CSV -> rep.consent_df
      [] f = DEMOGRAPHIC_CSV -> rep.demographic_df
      [] f = TASK_CSV -> rep.task_df
      [] f = EXIT_CSV -> rep.exit_df

\* C14: the report a run renders while no exit record has been written shows
\* no averages section and raises nothing, and it holds the frame of every
\* other file.
C14_NoAggregate ==
    (appended[EXIT_CSV] = <<>> /\ Rendered)
    => /\ Report.averages = NoAverages
       /\ Report.exception = ""
       /\ IsEmpty(Report.exit_df)
       /\ \A f \in CsvFiles \ {EXIT_CSV} :
            ReportFrame(Report, f) = load_from_csv(files[f])

HasField(data_dict, name) ==
    \E k \in DOMAIN data_dict : data_dict[k][1] = name

\* C15: the lines of a file are the field names of its stage, which include
\* timestamp and are those of every record written to it, followed by lines
\* of as many cells.
C15_FixedSchema ==
    \A f \in CsvFiles :
        LET kept == SelectSeq(files[f].lines, LAMBDA l : l # <<>>)
        IN  /\ \A i \in DOMAIN appended[f] :
                 /\ HasField(appended[f][i], "timestamp")
                 /\ kept # <<>> => Keys(appended[f][i]) = kept[1]
            /\ \A i \in DOMAIN kept : Len(kept[i]) = Len(kept[1])

RECURSIVE SumCreated(_)
\* the calls, over the sessions S, that found no file at their test
SumCreated(S) ==
    IF S = {} THEN 0
    ELSE LET s == CHOOSE x \in S : TRUE
         IN  sessions[s].created + SumCreated(S \ {s})

\* the frame that holds exactly the records, in their order
FrameOf(records) ==
    IF records = <<>> THEN EmptyDataFrame
    ELSE read_csv(<<Keys(records[1])>>
                  \o [i \in DOMAIN records |-> RowText(records[i])])

\* the orders in which n records can be taken
Orders(n) ==
    {p \in [1..n -> 1..n] : \A i, j \in 1..n : p[i] = p[j] => i = j}

\* C17: when two calls of save_to_csv on the same file both found no file
\* at their test, both write the file anew from its start: once the calls
\* are over, load does not return the records written, in whatever order
\* they are taken, because the later write has replaced the earlier record
\* or left only its tail.
C17_RaceNotExact ==
    ((\A s \in Sessions : sessions[s].pc = "idle")
       /\ SumCreated(Sessions) >= 2)
    => LET df == load_from_csv(files[StoreFile])
           records == appended[StoreFile]
       IN  \A p \in Orders(Len(records)) :
               df # FrameOf([i \in DOMAIN records |-> records[p[i]]])

C17_Witness ==
    /\ \A s \in Sessions :
         /\ sessions[s].pc = "idle"
         /\ sessions[s].calls = 1
         /\ sessions[s].created = 1
    /\ Len(appended[StoreFile]) = 2
    /\ appended[StoreFile][1] # appended[StoreFile][2]
    /\ files[StoreFile].lines = <<Keys(appended[StoreFile][2]),
                                  RowText(appended[StoreFile][2])>>

====
